---- MODULE Spec2Model ----
(***************************************************************************)
(* Model of the streaming chat proxy of src/chat_proxy.py: the Flask       *)
(* handler chat(), its response generator generate(), and the HTTP         *)
(* environment around one request (the upstream API and the client).       *)
(*                                                                         *)
(* Bytes are modelled as the strings "a", "b", LF and CR.  A byte string   *)
(* is a sequence of bytes.  Python's None for a byte string that is never  *)
(* empty when set (iter_lines' pending) is the empty sequence.             *)
(***************************************************************************)
EXTENDS Integers, Sequences, FiniteSets, TLC

\* ----------------------------------------------------------------- bounds
MaxBody == 4      \* upstream emits at most this many body bytes per request
MaxHealth == 2    \* GET /health is called at most this many times
LiveBody == 3     \* body bytes per request where fairness is checked
ConcBody == 2     \* body bytes per request when two requests run concurrently
ConcHealth == 1   \* health checks beside two concurrent requests
ChunkSize == 3    \* bytes one read of the upstream stream returns at most

\* ----------------------------------------------------------------- values
LF == "LF"
CR == "CR"
Bytes == {"a", "b", LF, CR}

Reqs == {"r1", "r2"}
\* the requests a specification lets arrive
SingleReq == {"r1"}

OPENROUTER_URL == "https://openrouter.ai/api/v1/chat/completions"
NoKey == "<None>"
Keys == {NoKey, "", "sk-1"}

DefaultModel == "openai/gpt-5.1"
Absent == "<absent>"

\* client request bodies: json is the shape of the parsed body; of a JSON
\* object, fields names the members that are present, the rest their values
ObjBody(fs, ms, md, sm, x) ==
    [json |-> "object", fields |-> fs, messages |-> ms, model |-> md,
     stream |-> sm, extra |-> x]
OtherBody(j) ==
    [json |-> j, fields |-> {}, messages |-> <<>>, model |-> "",
     stream |-> FALSE, extra |-> ""]
ClientBodies ==
    { OtherBody("invalid"), OtherBody("null"), OtherBody("array"),
      OtherBody("string"), OtherBody("number"),
      ObjBody({}, <<>>, "", FALSE, ""),
      ObjBody({"messages", "model"}, <<"hi">>, "m", FALSE, ""),
      ObjBody({"messages", "stream", "extra"}, <<"hi">>, "", FALSE, "t") }
NoBody == OtherBody("none")

\* upstream error statuses and the shapes of an error body
ErrStatuses == {401, 502}
\* an upstream error body: whether it could be read at all, whether it is
\* empty, what it parses to, its `error` member and that member's `message`
ErrBody(rd, em, js, er, ms) ==
    [readable |-> rd, empty |-> em, json |-> js, error |-> er, message |-> ms]
ErrBodies ==
    { ErrBody(FALSE, FALSE, "invalid", Absent, Absent),
      ErrBody(TRUE, TRUE, "invalid", Absent, Absent),
      ErrBody(TRUE, FALSE, "invalid", Absent, Absent),
      ErrBody(TRUE, FALSE, "array", Absent, Absent),
      ErrBody(TRUE, FALSE, "object", Absent, Absent),
      ErrBody(TRUE, FALSE, "object", "string", Absent),
      ErrBody(TRUE, FALSE, "object", "object", Absent),
      ErrBody(TRUE, FALSE, "object", "object", "invalid key") }
FallbackMessage == "API call failed"
NoErrBody == ErrBody(TRUE, TRUE, "invalid", Absent, Absent)
NoUpResp == [status |-> 0, body |-> NoErrBody]

NoStatus == 0
NoResp == [kind |-> "none", code |-> 0, error |-> "", status |-> NoStatus]
JsonResp(c, e, s) == [kind |-> "json", code |-> c, error |-> e, status |-> s]
StreamResp == [kind |-> "stream", code |-> 200, error |-> "", status |-> NoStatus]

\* ------------------------------------------- values of update_web_cards.py
\* a card as json.load returns it: whether it is a dict, which of the keys
\* main reads it has, whether its 'type' is a string, and esc, what its text
\* makes json.dumps emit: no escape, a backslash-n (line break in the text),
\* or a backslash-u (control character in the text)
Card(d, fs, ts, e) == [dict |-> d, fields |-> fs, typeIsStr |-> ts, esc |-> e]
GoodCard == Card(TRUE, {"type", "title"}, TRUE, "none")
NewlineCard == Card(TRUE, {"type", "title"}, TRUE, "newline")
ControlCard == Card(TRUE, {"type", "title"}, TRUE, "control")
UntypedCard == Card(TRUE, {"title"}, FALSE, "none")
StringCard == Card(FALSE, {}, FALSE, "none")

\* a JSON value as Python sees it: its kind, its truth value, and the items
\* of a list
JList(items) == [kind |-> "list", truthy |-> items # <<>>, items |-> items]
JOther(k, t) == [kind |-> k, truthy |-> t, items |-> <<>>]
CardsValues ==
    { JList(<<>>), JList(<<GoodCard>>), JList(<<GoodCard, NewlineCard>>),
      JList(<<ControlCard>>), JList(<<GoodCard, UntypedCard>>),
      JList(<<StringCard>>),
      JOther("null", FALSE), JOther("string", FALSE), JOther("string", TRUE),
      JOther("number", TRUE), JOther("object", FALSE), JOther("object", TRUE) }

\* the cards file: whether it can be opened and parsed, what JSON value it
\* holds, whether that object has a 'cards' member, and the member's value
CardsFile(f, t, h, v) == [file |-> f, top |-> t, hasCards |-> h, value |-> v]
NoCardsFile == CardsFile("missing", "none", FALSE, JList(<<>>))
CardsFiles ==
    { NoCardsFile,
      CardsFile("unreadable", "none", FALSE, JList(<<>>)),
      CardsFile("invalid", "none", FALSE, JList(<<>>)),
      CardsFile("json", "array", FALSE, JList(<<>>)),
      CardsFile("json", "object", FALSE, JList(<<>>)) }
    \cup { CardsFile("json", "object", TRUE, v) : v \in CardsValues }

\* the web-app HTML file: missing, read-only or writable; whether its text
\* has the CARD_DATA constant the pattern matches; the cards that constant
\* holds
HtmlFile(f, h, d) == [file |-> f, hasData |-> h, data |-> d]
NoHtmlFile == HtmlFile("missing", FALSE, <<>>)
HtmlFiles ==
    { NoHtmlFile, HtmlFile("readonly", TRUE, <<>>),
      HtmlFile("writable", TRUE, <<>>), HtmlFile("writable", FALSE, <<>>) }

VARIABLES
    apiKey,      \* OPENROUTER_API_KEY
    apiUrl,      \* OPENROUTER_URL
    health,      \* the replies GET /health has given, in order
    st,          \* lifecycle state of each request
    calls,       \* how many times chat() was entered for the request
    body,        \* the client's request body
    payload,     \* the JSON payload posted upstream
    upCalls,     \* upstream POSTs issued for the request
    upState,     \* upstream side: none, requested, open, eof, broken
    upResp,      \* upstream's response: status code and error body
    upSent,      \* body bytes upstream has emitted so far
    upRead,      \* how many of them the relay has read
    upReleased,  \* the upstream connection was closed / released
    pending,     \* iter_lines: trailing partial line
    lines,       \* iter_lines: lines of the current chunk not yet yielded
    tail,        \* iter_content is exhausted
    writing,     \* chunk yielded to the server, being written to the client
    clientOut,   \* body bytes the client has accepted
    clientGone,  \* the client has disconnected
    resp,        \* response status line / JSON body sent to the client
    closeReason, \* why a stream ended
    pcMain,      \* update_web_cards: where main() is
    cardsJson,   \* update_web_cards: the file CARDS_JSON
    webAppHtml,  \* update_web_cards: the file WEB_APP_HTML
    cards,       \* update_web_cards: main's local `cards`
    updateCalls, \* update_web_cards: calls of update_html_with_cards
    htmlReads,   \* update_web_cards: times WEB_APP_HTML was opened for reading
    htmlWrites   \* update_web_cards: times WEB_APP_HTML was opened for writing

vars == <<apiKey, apiUrl, health, st, calls, body, payload, upCalls, upState, upResp, upSent, upRead,
          upReleased, pending, lines, tail, writing, clientOut, clientGone,
          resp, closeReason,
          pcMain, cardsJson, webAppHtml, cards, updateCalls, htmlReads, htmlWrites>>

cardVars == <<pcMain, cardsJson, webAppHtml, cards, updateCalls, htmlReads, htmlWrites>>

reqVars == <<st, calls, body, payload, upCalls, resp>>
upVars == <<upState, upResp, upSent, upRead, upReleased>>
genVars == <<pending, lines, tail, writing>>
cliVars == <<clientOut, clientGone, closeReason>>
chatVars == <<apiKey, apiUrl, health, reqVars, upVars, genVars, cliVars>>

\* ------------------------------------------------------- pure functions
Last(s) == s[Len(s)]
Front(s) == SubSeq(s, 1, Len(s) - 1)

\* Python bytes.splitlines(): split at LF, CR and CR LF, no trailing empty
\* line after a final line end
RECURSIVE SplitFrom(_, _)
SplitFrom(s, cur) ==
    IF s = <<>> THEN (IF cur = <<>> THEN <<>> ELSE <<cur>>)
    ELSE IF Head(s) = LF THEN <<cur>> \o SplitFrom(Tail(s), <<>>)
    ELSE IF Head(s) = CR THEN
        IF Len(s) > 1 /\ s[2] = LF
        THEN <<cur>> \o SplitFrom(Tail(Tail(s)), <<>>)
        ELSE <<cur>> \o SplitFrom(Tail(s), <<>>)
    ELSE SplitFrom(Tail(s), Append(cur, Head(s)))

splitlines(s) == SplitFrom(s, <<>>)

NonEmpty(ls) == SelectSeq(ls, LAMBDA l : l # <<>>)
NoNonEmpty(ls) == NonEmpty(ls) = <<>>

\* variant: every chunk is split on its own, no partial line is carried over
IterLinesChunk_nopending(pend, chunk) ==
    [lines |-> splitlines(pend \o chunk), pending |-> <<>>]

\* variant: the body is collected and only split at the end of the stream
IterLinesChunk_buffer(pend, chunk) ==
    [lines |-> <<>>, pending |-> pend \o chunk]

\* requests' Response.iter_lines, one round of its loop: the chunk is
\* appended to pending and split; a last line that reaches the end of the
\* chunk is held back as the new pending
IterLinesChunk(pend, chunk) ==
    LET c == pend \o chunk
        ls == splitlines(c)
    IN IF ls # <<>> /\ Last(ls) # <<>> /\ c # <<>> /\ Last(Last(ls)) = Last(c)
       THEN [lines |-> Front(ls), pending |-> Last(ls)]
       ELSE [lines |-> ls, pending |-> <<>>]

\* variant: `if OPENROUTER_API_KEY == ""`
KeyMissing_emptyonly(k) == k = ""

\* variant: `if OPENROUTER_API_KEY is None`
KeyMissing_noneonly(k) == k = NoKey

\* `if not OPENROUTER_API_KEY`
KeyMissing(k) == k = NoKey \/ k = ""

\* variant: data = request.get_json(silent=True) or {}
BodyRaises_silent(b) == b.json \notin {"object", "invalid"}

\* variant: data = request.json or {}, a null body counts as an empty object
BodyRaises_ordefault(b) == b.json \notin {"object", "null"}

\* data = request.json; data.get(...): raises unless the body is a JSON object
BodyRaises(b) == b.json # "object"
BodyError(b) == IF b.json = "invalid" THEN "BadRequest" ELSE "AttributeError"

\* a payload: fields names the members of the dict, the rest their values
NoPayload == [fields |-> {}, model |-> "", messages |-> <<>>, stream |-> FALSE]

\* variant: model = data.get('model'), without the default
BuildPayload_nodefault(b) ==
    [fields   |-> {"model", "messages", "stream"},
     model    |-> b.model,
     messages |-> IF "messages" \in b.fields THEN b.messages ELSE <<>>,
     stream   |-> TRUE]

\* variant: 'stream': data.get('stream', True)
BuildPayload_clientstream(b) ==
    [fields   |-> {"model", "messages", "stream"},
     model    |-> IF "model" \in b.fields THEN b.model ELSE DefaultModel,
     messages |-> IF "messages" \in b.fields THEN b.messages ELSE <<>>,
     stream   |-> IF "stream" \in b.fields THEN b.stream ELSE TRUE]

\* messages = data.get('messages', []); model = data.get('model', ...);
\* payload = {'model': model, 'messages': messages, 'stream': True}
BuildPayload(b) ==
    [fields   |-> {"model", "messages", "stream"},
     model    |-> IF "model" \in b.fields THEN b.model ELSE DefaultModel,
     messages |-> IF "messages" \in b.fields THEN b.messages ELSE <<>>,
     stream   |-> TRUE]

\* the response chat() returns for an upstream status other than 200:
\*   error_data = response.json() if response.content else {}
\*   error_data.get('error', {}).get('message', 'API call failed')
\* any exception on the way ends in the handler's `except Exception`
ErrorReply(status, eb) ==
    IF ~eb.readable THEN JsonResp(500, "ConnectionError", NoStatus)
    ELSE IF ~eb.empty /\ eb.json = "invalid" THEN JsonResp(500, "JSONDecodeError", NoStatus)
    ELSE IF ~eb.empty /\ eb.json # "object" THEN JsonResp(500, "AttributeError", NoStatus)
    ELSE LET err == IF eb.empty \/ eb.error = Absent THEN "object" ELSE eb.error
             msg == IF eb.empty \/ eb.error = Absent \/ eb.message = Absent
                    THEN FallbackMessage ELSE eb.message
         IN IF err # "object" THEN JsonResp(500, "AttributeError", NoStatus)
            ELSE JsonResp(status, msg, status)

Avail(r) == Len(upSent[r]) - upRead[r]
Min(a, b) == IF a < b THEN a ELSE b
FirstNonEmpty(ls) == CHOOSE i \in 1..Len(ls) : ls[i] # <<>> /\ \A j \in 1..(i-1) : ls[j] = <<>>

\* ------------------------------------------------------------------ Init
Init ==
    /\ apiKey \in Keys
    /\ apiUrl = OPENROUTER_URL
    /\ health = <<>>
    /\ st = [r \in Reqs |-> "NotArrived"]
    /\ calls = [r \in Reqs |-> 0]
    /\ body = [r \in Reqs |-> NoBody]
    /\ payload = [r \in Reqs |-> NoPayload]
    /\ upCalls = [r \in Reqs |-> 0]
    /\ upState = [r \in Reqs |-> "none"]
    /\ upResp = [r \in Reqs |-> NoUpResp]
    /\ upSent = [r \in Reqs |-> <<>>]
    /\ upRead = [r \in Reqs |-> 0]
    /\ upReleased = [r \in Reqs |-> FALSE]
    /\ pending = [r \in Reqs |-> <<>>]
    /\ lines = [r \in Reqs |-> <<>>]
    /\ tail = [r \in Reqs |-> FALSE]
    /\ writing = [r \in Reqs |-> <<>>]
    /\ clientOut = [r \in Reqs |-> <<>>]
    /\ clientGone = [r \in Reqs |-> FALSE]
    /\ resp = [r \in Reqs |-> NoResp]
    /\ closeReason = [r \in Reqs |-> "none"]
    /\ pcMain = "idle"
    /\ cardsJson = NoCardsFile
    /\ webAppHtml = NoHtmlFile
    /\ cards = JList(<<>>)
    /\ updateCalls = 0
    /\ htmlReads = 0
    /\ htmlWrites = 0

\* --------------------------------------------------------------- handler
\* a client sends POST /api/chat with body b
Arrive(r, b) ==
    /\ st[r] = "NotArrived"
    /\ st' = [st EXCEPT ![r] = "Received"]
    /\ body' = [body EXCEPT ![r] = b]
    /\ UNCHANGED <<cardVars, apiKey, apiUrl, health, calls, payload, upCalls, resp>>
    /\ UNCHANGED <<upVars, genVars, cliVars>>

\* variant: an exception that left a running generator has ended the server
\* process, no later request is dispatched
Dispatch_afterCrash(r) ==
    /\ \A q \in Reqs : closeReason[q] # "upstream_drop"
    /\ st[r] = "Received"
    /\ st' = [st EXCEPT ![r] = "ValidatingConfig"]
    /\ calls' = [calls EXCEPT ![r] = @ + 1]
    /\ UNCHANGED <<cardVars, apiKey, apiUrl, health, body, payload, upCalls, resp>>
    /\ UNCHANGED <<upVars, genVars, cliVars>>

\* variant: the route is registered twice and chat() runs twice
Dispatch_twice(r) ==
    /\ st[r] = "Received"
    /\ st' = [st EXCEPT ![r] = "ValidatingConfig"]
    /\ calls' = [calls EXCEPT ![r] = @ + 2]
    /\ UNCHANGED <<cardVars, apiKey, apiUrl, health, body, payload, upCalls, resp>>
    /\ UNCHANGED <<upVars, genVars, cliVars>>

\* the route dispatches the request to chat()
Dispatch(r) ==
    /\ st[r] = "Received"
    /\ st' = [st EXCEPT ![r] = "ValidatingConfig"]
    /\ calls' = [calls EXCEPT ![r] = @ + 1]
    /\ UNCHANGED <<cardVars, apiKey, apiUrl, health, body, payload, upCalls, resp>>
    /\ UNCHANGED <<upVars, genVars, cliVars>>

\* variant: chat() reloads the key from the environment on every request
\* (global OPENROUTER_API_KEY; OPENROUTER_API_KEY = os.getenv(...))
CheckKey_reload(r) ==
    /\ st[r] = "ValidatingConfig"
    /\ \E k \in Keys :
         /\ apiKey' = k
         /\ IF KeyMissing(k)
            THEN /\ st' = [st EXCEPT ![r] = "ErrorResponse"]
                 /\ resp' = [resp EXCEPT ![r] = JsonResp(500, "API key not configured", NoStatus)]
            ELSE /\ st' = [st EXCEPT ![r] = "Forwarding"]
                 /\ resp' = resp
    /\ UNCHANGED <<cardVars, apiUrl, health, calls, body, payload, upCalls>>
    /\ UNCHANGED <<upVars, genVars, cliVars>>

\* if not OPENROUTER_API_KEY: return jsonify({"error": ...}), 500
CheckKey(r) ==
    /\ st[r] = "ValidatingConfig"
    /\ IF KeyMissing(apiKey)
       THEN /\ st' = [st EXCEPT ![r] = "ErrorResponse"]
            /\ resp' = [resp EXCEPT ![r] = JsonResp(500, "API key not configured", NoStatus)]
       ELSE /\ st' = [st EXCEPT ![r] = "Forwarding"]
            /\ resp' = resp
    /\ UNCHANGED <<cardVars, apiKey, apiUrl, health, calls, body, payload, upCalls>>
    /\ UNCHANGED <<upVars, genVars, cliVars>>

\* data = request.json ... response = requests.post(..., stream=True)
ParseAndPost(r) ==
    /\ st[r] = "Forwarding"
    /\ upState[r] = "none"
    /\ IF BodyRaises(body[r])
       THEN /\ st' = [st EXCEPT ![r] = "ErrorResponse"]
            /\ resp' = [resp EXCEPT ![r] = JsonResp(500, BodyError(body[r]), NoStatus)]
            /\ UNCHANGED <<payload, upCalls, upState>>
       ELSE /\ payload' = [payload EXCEPT ![r] = BuildPayload(body[r])]
            /\ upCalls' = [upCalls EXCEPT ![r] = @ + 1]
            /\ upState' = [upState EXCEPT ![r] = "requested"]
            /\ UNCHANGED <<st, resp>>
    /\ UNCHANGED <<cardVars, apiKey, apiUrl, health, calls, body, upResp, upSent, upRead, upReleased>>
    /\ UNCHANGED <<genVars, cliVars>>

\* variant: a failed post is tried again
UpstreamFail_retry(r) ==
    /\ st[r] = "Forwarding"
    /\ upState[r] = "requested"
    /\ upCalls[r] < 3
    /\ upCalls' = [upCalls EXCEPT ![r] = @ + 1]
    /\ UNCHANGED <<cardVars, apiKey, apiUrl, health, st, calls, body, payload, resp>>
    /\ UNCHANGED <<upVars, genVars, cliVars>>

\* variant: the exception of the post is swallowed (except: pass around the
\* call) and the handler goes on to return the streamed response
UpstreamFail_swallowed(r) ==
    /\ st[r] = "Forwarding"
    /\ upState[r] = "requested"
    /\ st' = [st EXCEPT ![r] = "Streaming"]
    /\ resp' = [resp EXCEPT ![r] = StreamResp]
    /\ upState' = [upState EXCEPT ![r] = "broken"]
    /\ UNCHANGED <<cardVars, apiKey, apiUrl, health, calls, body, payload, upCalls, upResp, upSent, upRead, upReleased>>
    /\ UNCHANGED <<genVars, cliVars>>

\* requests.post raises (connection refused, DNS, TLS): except Exception
UpstreamFail(r) ==
    /\ st[r] = "Forwarding"
    /\ upState[r] = "requested"
    /\ st' = [st EXCEPT ![r] = "ErrorResponse"]
    /\ resp' = [resp EXCEPT ![r] = JsonResp(500, "ConnectionError", NoStatus)]
    /\ upState' = [upState EXCEPT ![r] = "broken"]
    /\ upReleased' = [upReleased EXCEPT ![r] = TRUE]
    /\ UNCHANGED <<cardVars, apiKey, apiUrl, health, calls, body, payload, upCalls, upResp, upSent, upRead>>
    /\ UNCHANGED <<genVars, cliVars>>

\* upstream answers with a status other than 200 and an error body
UpstreamError(r, status, eb) ==
    /\ st[r] = "Forwarding"
    /\ upState[r] = "requested"
    /\ st' = [st EXCEPT ![r] = "ErrorResponse"]
    /\ resp' = [resp EXCEPT ![r] = ErrorReply(status, eb)]
    /\ upState' = [upState EXCEPT ![r] = IF eb.readable THEN "eof" ELSE "broken"]
    /\ upResp' = [upResp EXCEPT ![r] = [status |-> status, body |-> eb]]
    /\ upReleased' = [upReleased EXCEPT ![r] = TRUE]
    /\ UNCHANGED <<cardVars, apiKey, apiUrl, health, calls, body, payload, upCalls, upSent, upRead>>
    /\ UNCHANGED <<genVars, cliVars>>

\* upstream answers 200: return Response(generate(), mimetype='text/event-stream')
UpstreamOk(r) ==
    /\ st[r] = "Forwarding"
    /\ upState[r] = "requested"
    /\ st' = [st EXCEPT ![r] = "Streaming"]
    /\ resp' = [resp EXCEPT ![r] = StreamResp]
    /\ upState' = [upState EXCEPT ![r] = "open"]
    /\ upResp' = [upResp EXCEPT ![r] = [status |-> 200, body |-> NoErrBody]]
    /\ UNCHANGED <<cardVars, apiKey, apiUrl, health, calls, body, payload, upCalls, upSent, upRead, upReleased>>
    /\ UNCHANGED <<genVars, cliVars>>

\* ------------------------------------------------------------- generate()
\* the server resumes the generator only when its last chunk is written
Resumable(r) == st[r] = "Streaming" /\ writing[r] = <<>>

\* the stream ends: the generator and with it the upstream response are
\* dropped, the client connection is closed
CloseStream(r, why) ==
    /\ st' = [st EXCEPT ![r] = "Closed"]
    /\ closeReason' = [closeReason EXCEPT ![r] = why]
    /\ upReleased' = [upReleased EXCEPT ![r] = TRUE]

\* for chunk in response.iter_lines(): if chunk: yield chunk + b'\n'
\* (a line already split from the current chunk)
RelayYield(r) ==
    /\ Resumable(r)
    /\ ~NoNonEmpty(lines[r])
    /\ LET i == FirstNonEmpty(lines[r])
       IN /\ writing' = [writing EXCEPT ![r] = Append(lines[r][i], LF)]
          /\ lines' = [lines EXCEPT ![r] = SubSeq(@, i + 1, Len(@))]
    /\ UNCHANGED <<cardVars, apiKey, apiUrl, health, reqVars, upVars, pending, tail, cliVars>>

\* variant: `response` is a module global, so a running generator reads
\* from the upstream response of the other request once that one is open
RelayRead_shared(r, n) ==
    LET o == CHOOSE x \in Reqs : x # r
        q == IF upState[o] \in {"open", "eof"} /\ ~upReleased[o] THEN o ELSE r
    IN /\ Resumable(r)
       /\ ~tail[r]
       /\ NoNonEmpty(lines[r])
       /\ n \in 1..Min(ChunkSize, Avail(q))
       /\ LET chunk == SubSeq(upSent[q], upRead[q] + 1, upRead[q] + n)
              res == IterLinesChunk(pending[r], chunk)
          IN /\ lines' = [lines EXCEPT ![r] = res.lines]
             /\ pending' = [pending EXCEPT ![r] = res.pending]
       /\ upRead' = [upRead EXCEPT ![q] = @ + n]
       /\ UNCHANGED <<cardVars, apiKey, apiUrl, health, reqVars, upState, upResp, upSent,
                      upReleased, tail, writing, cliVars>>

\* variant: chunks are read ahead while the last write is still outstanding
RelayRead_ahead(r, n) ==
    /\ st[r] = "Streaming"
    /\ ~tail[r]
    /\ n \in 1..Min(ChunkSize, Avail(r))
    /\ LET chunk == SubSeq(upSent[r], upRead[r] + 1, upRead[r] + n)
           res == IterLinesChunk(pending[r], chunk)
       IN /\ lines' = [lines EXCEPT ![r] = @ \o res.lines]
          /\ pending' = [pending EXCEPT ![r] = res.pending]
    /\ upRead' = [upRead EXCEPT ![r] = @ + n]
    /\ UNCHANGED <<cardVars, apiKey, apiUrl, health, reqVars, upState, upResp, upSent, upReleased, tail, writing, cliVars>>

\* iter_lines pulls the next chunk of n bytes from the upstream stream
RelayRead(r, n) ==
    /\ Resumable(r)
    /\ ~tail[r]
    /\ NoNonEmpty(lines[r])
    /\ n \in 1..Min(ChunkSize, Avail(r))
    /\ LET chunk == SubSeq(upSent[r], upRead[r] + 1, upRead[r] + n)
           res == IterLinesChunk(pending[r], chunk)
       IN /\ lines' = [lines EXCEPT ![r] = res.lines]
          /\ pending' = [pending EXCEPT ![r] = res.pending]
    /\ upRead' = [upRead EXCEPT ![r] = @ + n]
    /\ UNCHANGED <<cardVars, apiKey, apiUrl, health, reqVars, upState, upResp, upSent, upReleased, tail, writing, cliVars>>

\* variant: at end-of-stream the loop polls upstream again instead of ending
RelayEof_spin(r) ==
    /\ Resumable(r)
    /\ ~tail[r]
    /\ NoNonEmpty(lines[r])
    /\ Avail(r) = 0
    /\ upState[r] = "eof"
    /\ UNCHANGED vars

\* variant: a stream that ends without any line written is answered as a
\* failed request
RelayEof_failEmpty(r) ==
    /\ Resumable(r)
    /\ ~tail[r]
    /\ NoNonEmpty(lines[r])
    /\ Avail(r) = 0
    /\ upState[r] = "eof"
    /\ tail' = [tail EXCEPT ![r] = TRUE]
    /\ lines' = [lines EXCEPT ![r] = <<>>]
    /\ IF pending[r] # <<>>
       THEN /\ writing' = [writing EXCEPT ![r] = Append(pending[r], LF)]
            /\ pending' = [pending EXCEPT ![r] = <<>>]
            /\ UNCHANGED <<st, closeReason, upReleased, resp>>
       ELSE /\ closeReason' = [closeReason EXCEPT ![r] = "eof"]
            /\ upReleased' = [upReleased EXCEPT ![r] = TRUE]
            /\ IF clientOut[r] = <<>>
               THEN /\ st' = [st EXCEPT ![r] = "ErrorResponse"]
                    /\ resp' = [resp EXCEPT ![r] = JsonResp(500, "empty response", NoStatus)]
               ELSE /\ st' = [st EXCEPT ![r] = "Closed"]
                    /\ resp' = resp
            /\ UNCHANGED <<writing, pending>>
    /\ UNCHANGED <<cardVars, apiKey, apiUrl, health, calls, body, payload, upCalls, upState,
                   upResp, upSent, upRead, clientOut, clientGone>>

\* upstream's end-of-stream is read: iter_lines yields pending, if any
RelayEof(r) ==
    /\ Resumable(r)
    /\ ~tail[r]
    /\ NoNonEmpty(lines[r])
    /\ Avail(r) = 0
    /\ upState[r] = "eof"
    /\ tail' = [tail EXCEPT ![r] = TRUE]
    /\ lines' = [lines EXCEPT ![r] = <<>>]
    /\ IF pending[r] # <<>>
       THEN /\ writing' = [writing EXCEPT ![r] = Append(pending[r], LF)]
            /\ pending' = [pending EXCEPT ![r] = <<>>]
            /\ UNCHANGED <<st, closeReason, upReleased>>
       ELSE /\ CloseStream(r, "eof")
            /\ UNCHANGED <<writing, pending>>
    /\ UNCHANGED <<cardVars, apiKey, apiUrl, health, calls, body, payload, upCalls, resp, upState, upResp, upSent,
                   upRead, clientOut, clientGone>>

\* the generator returns after the last line was written
RelayFinish(r) ==
    /\ Resumable(r)
    /\ tail[r]
    /\ CloseStream(r, "eof")
    /\ UNCHANGED <<cardVars, apiKey, apiUrl, health, calls, body, payload, upCalls, resp, upState, upResp, upSent,
                   upRead, genVars, clientOut, clientGone>>

\* variant: the partial line is flushed to the client before the stream ends
RelayUpstreamError_flush(r) ==
    /\ Resumable(r)
    /\ ~tail[r]
    /\ NoNonEmpty(lines[r])
    /\ upState[r] = "broken"
    /\ CloseStream(r, "upstream_drop")
    /\ lines' = [lines EXCEPT ![r] = <<>>]
    /\ pending' = [pending EXCEPT ![r] = <<>>]
    /\ clientOut' = [clientOut EXCEPT ![r] =
                        IF pending[r] = <<>> THEN @ ELSE @ \o Append(pending[r], LF)]
    /\ UNCHANGED <<cardVars, apiKey, apiUrl, health, calls, body, payload, upCalls, resp, upState, upResp, upSent,
                   upRead, tail, writing, clientGone>>

\* variant: the handler's `except Exception` also answers a failure of the
\* running generator with a JSON error
RelayUpstreamError_asError(r) ==
    /\ Resumable(r)
    /\ ~tail[r]
    /\ NoNonEmpty(lines[r])
    /\ upState[r] = "broken"
    /\ CloseStream(r, "upstream_drop")
    /\ resp' = [resp EXCEPT ![r] = JsonResp(500, "ConnectionError", NoStatus)]
    /\ lines' = [lines EXCEPT ![r] = <<>>]
    /\ pending' = [pending EXCEPT ![r] = <<>>]
    /\ UNCHANGED <<cardVars, apiKey, apiUrl, health, calls, body, payload, upCalls, upState, upResp, upSent,
                   upRead, tail, writing, clientOut, clientGone>>

\* reading the next chunk raises (the upstream connection broke): the
\* exception leaves generate(), pending is lost with it
RelayUpstreamError(r) ==
    /\ Resumable(r)
    /\ ~tail[r]
    /\ NoNonEmpty(lines[r])
    /\ upState[r] = "broken"
    /\ CloseStream(r, "upstream_drop")
    /\ lines' = [lines EXCEPT ![r] = <<>>]
    /\ pending' = [pending EXCEPT ![r] = <<>>]
    /\ UNCHANGED <<cardVars, apiKey, apiUrl, health, calls, body, payload, upCalls, resp, upState, upResp, upSent,
                   upRead, tail, writing, clientOut, clientGone>>

\* the client accepts the chunk being written
ClientAccept(r) ==
    /\ st[r] = "Streaming"
    /\ writing[r] # <<>>
    /\ ~clientGone[r]
    /\ clientOut' = [clientOut EXCEPT ![r] = @ \o writing[r]]
    /\ writing' = [writing EXCEPT ![r] = <<>>]
    /\ UNCHANGED <<cardVars, apiKey, apiUrl, health, reqVars, upVars, pending, lines, tail, clientGone, closeReason>>

\* variant: the failed write is swallowed and the generator keeps running
WriteFail_drain(r) ==
    /\ st[r] = "Streaming"
    /\ writing[r] # <<>>
    /\ clientGone[r]
    /\ closeReason' = [closeReason EXCEPT ![r] = "client_gone"]
    /\ writing' = [writing EXCEPT ![r] = <<>>]
    /\ UNCHANGED <<cardVars, apiKey, apiUrl, health, reqVars, upVars, pending, lines, tail, clientOut, clientGone>>

\* the write to a disconnected client fails: the server closes the generator
WriteFail(r) ==
    /\ st[r] = "Streaming"
    /\ writing[r] # <<>>
    /\ clientGone[r]
    /\ CloseStream(r, "client_gone")
    /\ writing' = [writing EXCEPT ![r] = <<>>]
    /\ lines' = [lines EXCEPT ![r] = <<>>]
    /\ pending' = [pending EXCEPT ![r] = <<>>]
    /\ UNCHANGED <<cardVars, apiKey, apiUrl, health, calls, body, payload, upCalls, resp, upState, upResp, upSent,
                   upRead, tail, clientOut, clientGone>>

\* ----------------------------------------------------------- environment
ClientDisconnect(r) ==
    /\ st[r] = "Streaming"
    /\ ~clientGone[r]
    /\ clientGone' = [clientGone EXCEPT ![r] = TRUE]
    /\ UNCHANGED <<cardVars, apiKey, apiUrl, health, reqVars, upVars, genVars, clientOut, closeReason>>

UpstreamSend(r, b) ==
    /\ upState[r] = "open"
    /\ ~upReleased[r]
    /\ Len(upSent[r]) < MaxBody
    /\ upSent' = [upSent EXCEPT ![r] = Append(@, b)]
    /\ UNCHANGED <<cardVars, apiKey, apiUrl, health, reqVars, upState, upResp, upRead, upReleased, genVars, cliVars>>

UpstreamEnd(r) ==
    /\ upState[r] = "open"
    /\ ~upReleased[r]
    /\ upState' = [upState EXCEPT ![r] = "eof"]
    /\ UNCHANGED <<cardVars, apiKey, apiUrl, health, reqVars, upResp, upSent, upRead, upReleased, genVars, cliVars>>

UpstreamDrop(r) ==
    /\ upState[r] = "open"
    /\ ~upReleased[r]
    /\ upState' = [upState EXCEPT ![r] = "broken"]
    /\ UNCHANGED <<cardVars, apiKey, apiUrl, health, reqVars, upResp, upSent, upRead, upReleased, genVars, cliVars>>

\* ---------------------------------------------------------------- health()
\* variant: "api_key_configured": OPENROUTER_API_KEY is not None
HealthReply_notNone(k) == [status |-> "ok", api_key_configured |-> k # NoKey]

\* jsonify({"status": "ok", "api_key_configured": bool(OPENROUTER_API_KEY)})
HealthReply(k) == [status |-> "ok", api_key_configured |-> (k # NoKey /\ k # "")]

\* a client sends GET /health
Health ==
    /\ Len(health) < MaxHealth
    /\ health' = Append(health, HealthReply(apiKey))
    /\ UNCHANGED <<cardVars, apiKey, apiUrl, reqVars, upVars, genVars, cliVars>>

\* ------------------------------------------------------------------ Spec
Step(r) ==
    \/ \E b \in ClientBodies : Arrive(r, b)
    \/ Dispatch(r)
    \/ CheckKey(r)
    \/ ParseAndPost(r)
    \/ UpstreamFail(r)
    \/ \E s \in ErrStatuses, eb \in ErrBodies : UpstreamError(r, s, eb)
    \/ UpstreamOk(r)
    \/ RelayYield(r)
    \/ \E n \in 1..ChunkSize : RelayRead(r, n)
    \/ RelayEof(r)
    \/ RelayFinish(r)
    \/ RelayUpstreamError(r)
    \/ ClientAccept(r)
    \/ WriteFail(r)
    \/ ClientDisconnect(r)
    \/ \E b \in Bytes : UpstreamSend(r, b)
    \/ UpstreamEnd(r)
    \/ UpstreamDrop(r)

Next == \E r \in SingleReq : Step(r)

Spec == Init /\ [][Next]_vars

\* the relay and the client's socket keep running; upstream and the client's
\* decision to leave are under no obligation
Fairness ==
    \A r \in SingleReq :
        /\ WF_vars(RelayYield(r))
        /\ WF_vars(\E n \in 1..ChunkSize : RelayRead(r, n))
        /\ WF_vars(RelayEof(r))
        /\ WF_vars(RelayFinish(r))
        /\ WF_vars(RelayUpstreamError(r))
        /\ WF_vars(ClientAccept(r))
        /\ WF_vars(WriteFail(r))

\* the steps of one request on an upstream body of at most LiveBody bytes
LiveNext == \E r \in SingleReq : Step(r) /\ Len(upSent'[r]) <= LiveBody

LiveSpec == Init /\ [][LiveNext]_vars /\ Fairness

\* besides, the handler runs, upstream answers the post, and an open
\* upstream stream is ended or broken at some time
TermFairness ==
    \A r \in SingleReq :
        /\ WF_vars(Dispatch(r))
        /\ WF_vars(CheckKey(r))
        /\ WF_vars(ParseAndPost(r))
        /\ WF_vars(\/ UpstreamFail(r)
                   \/ \E s \in ErrStatuses, eb \in ErrBodies : UpstreamError(r, s, eb)
                   \/ UpstreamOk(r))
        /\ WF_vars(UpstreamEnd(r) \/ UpstreamDrop(r))

TermSpec == Init /\ [][LiveNext]_vars /\ Fairness /\ TermFairness

\* one chat request interleaved with health checks
HealthNext == Next \/ Health
HealthSpec == Init /\ [][HealthNext]_vars

\* two chat requests and a health check in any interleaving, each request
\* on inputs of its own: the upstream of r1 sends "a" and LF, that of r2 "b"
\* and LF
ConcBytes(r) == IF r = "r1" THEN {"a", LF} ELSE {"b", LF}
ConcBodies ==
    { OtherBody("invalid"), ObjBody({"messages", "model"}, <<"hi">>, "m", FALSE, "") }
ConcErrBodies ==
    { ErrBody(TRUE, FALSE, "invalid", Absent, Absent),
      ErrBody(TRUE, FALSE, "object", "object", "invalid key") }
ConcInputs(r) ==
    /\ Len(upSent'[r]) <= ConcBody
    /\ \A i \in 1..Len(upSent'[r]) : upSent'[r][i] \in ConcBytes(r)
    /\ body'[r] \in ConcBodies \cup {NoBody}
    /\ upResp'[r].status \in {0, 200, 401}
    /\ upResp'[r].body \in ConcErrBodies \cup {NoErrBody}
ConcNext ==
    \/ \E r \in Reqs : Step(r) /\ ConcInputs(r)
    \/ Health /\ Len(health') <= ConcHealth
ConcSpec == Init /\ [][ConcNext]_vars

\* ------------------------------------------------------ update_web_cards.py
\* load_cards(): data.get('cards', []) of the parsed file; [] when opening,
\* parsing or .get raises
load_cards(f) ==
    IF f.file # "json" \/ f.top # "object" THEN JList(<<>>)
    ELSE IF ~f.hasCards THEN JList(<<>>)
    ELSE f.value

\* len(cards) and the loop printing card['type'].upper() and card['title']
\* raise: on a number, on the characters of a string or the keys of a dict,
\* on a card that is no dict, lacks a key or has a 'type' that is no string
SummaryRaises(v) ==
    \/ v.kind # "list"
    \/ \E i \in 1..Len(v.items) :
          \/ ~v.items[i].dict
          \/ ~({"type", "title"} \subseteq v.items[i].fields)
          \/ ~v.items[i].typeIsStr

\* re.sub parses the replacement as a template: backslash-u is a bad escape
\* and raises, backslash-n becomes a line break
SubRaises(v) == \E i \in 1..Len(v.items) : v.items[i].esc = "control"
Unescape(c) == IF c.esc = "newline" THEN [c EXCEPT !.esc = "linebreak"] ELSE c
Substituted(h, v) ==
    IF h.hasData THEN [h EXCEPT !.data = [i \in 1..Len(v.items) |-> Unescape(v.items[i])]]
    ELSE h

\* the script is started with the cards file f and the HTML file h on disk
RunMain(f, h) ==
    /\ pcMain = "idle"
    /\ pcMain' = "loading"
    /\ cardsJson' = f
    /\ webAppHtml' = h
    /\ UNCHANGED <<chatVars, cards, updateCalls, htmlReads, htmlWrites>>

\* cards = load_cards()
LoadCards ==
    /\ pcMain = "loading"
    /\ cards' = load_cards(cardsJson)
    /\ pcMain' = "loaded"
    /\ UNCHANGED <<chatVars, cardsJson, webAppHtml, updateCalls, htmlReads, htmlWrites>>

\* variant: main without `if not cards: return`
CheckCards_noguard ==
    /\ pcMain = "loaded"
    /\ pcMain' = "summary"
    /\ UNCHANGED <<chatVars, cardsJson, webAppHtml, cards, updateCalls, htmlReads, htmlWrites>>

\* if not cards: print(...); return
CheckCards ==
    /\ pcMain = "loaded"
    /\ pcMain' = IF ~cards.truthy THEN "stopped" ELSE "summary"
    /\ UNCHANGED <<chatVars, cardsJson, webAppHtml, cards, updateCalls, htmlReads, htmlWrites>>

\* print(len(cards)); for i, card in enumerate(cards, 1): print(...);
\* then update_html_with_cards(cards) is called
Summary ==
    /\ pcMain = "summary"
    /\ IF SummaryRaises(cards)
       THEN /\ pcMain' = "crashed"
            /\ UNCHANGED updateCalls
       ELSE /\ pcMain' = "reading"
            /\ updateCalls' = updateCalls + 1
    /\ UNCHANGED <<chatVars, cardsJson, webAppHtml, cards, htmlReads, htmlWrites>>

\* with open(WEB_APP_HTML, 'r') as f: html_content = f.read()
ReadHtml ==
    /\ pcMain = "reading"
    /\ htmlReads' = htmlReads + 1
    /\ pcMain' = IF webAppHtml.file = "missing" THEN "failed" ELSE "substituting"
    /\ UNCHANGED <<chatVars, cardsJson, webAppHtml, cards, updateCalls, htmlWrites>>

\* json.dumps, re.sub, and with open(WEB_APP_HTML, 'w') as f: f.write(...)
WriteHtml ==
    /\ pcMain = "substituting"
    /\ IF SubRaises(cards)
       THEN /\ pcMain' = "failed"
            /\ UNCHANGED <<webAppHtml, htmlWrites>>
       ELSE /\ htmlWrites' = htmlWrites + 1
            /\ IF webAppHtml.file = "readonly"
               THEN /\ pcMain' = "failed"
                    /\ UNCHANGED webAppHtml
               ELSE /\ pcMain' = "updated"
                    /\ webAppHtml' = Substituted(webAppHtml, cards)
    /\ UNCHANGED <<chatVars, cardsJson, cards, updateCalls, htmlReads>>

CardsNext ==
    \/ \E f \in CardsFiles, h \in HtmlFiles : RunMain(f, h)
    \/ LoadCards
    \/ CheckCards
    \/ Summary
    \/ ReadHtml
    \/ WriteHtml

CardsSpec == Init /\ [][CardsNext]_vars

\* ================================================================ claims
RECURSIVE Render(_)
\* each line followed by one LF, concatenated
Render(ls) == IF ls = <<>> THEN <<>> ELSE Append(Head(ls), LF) \o Render(Tail(ls))

ReadPrefix(r) == SubSeq(upSent[r], 1, upRead[r])
EndsLine(d) == d # <<>> /\ Last(d) \in {LF, CR}
\* the lines of d whose line end is part of d
CompleteLines(d) ==
    IF d = <<>> \/ EndsLine(d) THEN splitlines(d) ELSE Front(splitlines(d))
Terminal(r) == st[r] \in {"ErrorResponse", "Closed"}

\* C1: when upstream answered 200 and its stream was relayed to the end, the
\* bytes the client got are the non-empty lines of the upstream body, in
\* order, each followed by exactly one newline, and nothing else.
C1_RelayExact ==
    \A r \in Reqs :
        (st[r] = "Closed" /\ closeReason[r] = "eof")
            => clientOut[r] = Render(NonEmpty(splitlines(upSent[r])))

C1_Witness ==
    /\ st["r1"] = "Closed" /\ closeReason["r1"] = "eof"
    /\ upSent["r1"] = <<"a", LF, LF, "b">>
    /\ clientOut["r1"] = <<"a", LF, "b", LF>>

\* C2: with the API key unset or empty no request gets past config
\* validation: the only response is HTTP 500 with a JSON error, whatever the
\* body, and no upstream call is issued.
C2_MissingKey ==
    \A r \in Reqs :
        apiKey \in {NoKey, ""} =>
            /\ upCalls[r] = 0 /\ upState[r] = "none"
            /\ st[r] \in {"NotArrived", "Received", "ValidatingConfig", "ErrorResponse"}
            /\ resp[r] # NoResp =>
                 (resp[r].kind = "json" /\ resp[r].code = 500 /\ resp[r].error # "")
            /\ st[r] = "ErrorResponse" => resp[r] # NoResp

C2_Witness ==
    /\ apiKey = "" /\ st["r1"] = "ErrorResponse"
    /\ body["r1"].json = "invalid"
    /\ resp["r1"].code = 500 /\ upCalls["r1"] = 0

\* the `error` the claim expects for an upstream error body
ExpectedError(eb) ==
    IF ~eb.empty /\ eb.json = "object" /\ eb.error = "object" /\ eb.message # Absent
    THEN eb.message ELSE FallbackMessage

\* C3: for every upstream status other than 200 whose body was received
\* (empty, not JSON, JSON without error.message, JSON with it) the client
\* gets that status and {error, status}, error being upstream's
\* error.message or else the fallback string.
C3_UpstreamRejection ==
    \A r \in Reqs :
        (upResp[r].status \notin {0, 200} /\ upResp[r].body.readable)
            => resp[r] = JsonResp(upResp[r].status, ExpectedError(upResp[r].body),
                                  upResp[r].status)

LifecycleEdges ==
    { <<"NotArrived", "Received">>, <<"Received", "ValidatingConfig">>,
      <<"ValidatingConfig", "Forwarding">>, <<"Forwarding", "ErrorResponse">>,
      <<"Forwarding", "Streaming">>, <<"Streaming", "Closed">> }

HandledOnce(r) ==
    /\ calls[r] <= 1
    /\ st[r] \notin {"NotArrived", "Received"} => calls[r] = 1

\* C4 as stated: a request changes state only along Received ->
\* Validating-Config -> Forwarding -> (Error-Response | Streaming -> Closed)
\* and is handled exactly once.
C4_ClaimedLifecycle ==
    [][\A r \in Reqs :
          /\ st'[r] # st[r] => <<st[r], st'[r]>> \in LifecycleEdges
          /\ HandledOnce(r)']_vars

\* C4 amended: as stated, with the one more transition Validating-Config ->
\* Error-Response (the API key is missing); no transition leads back or out
\* of a terminal state and chat() is entered exactly once per request.
C4_Lifecycle ==
    [][\A r \in Reqs :
          /\ st'[r] # st[r] =>
               <<st[r], st'[r]>> \in
                   LifecycleEdges \cup {<<"ValidatingConfig", "ErrorResponse">>}
          /\ HandledOnce(r)']_vars

C4_Witness ==
    /\ st["r1"] = "Closed" /\ calls["r1"] = 1 /\ clientOut["r1"] # <<>>

\* C5: when the upstream connection breaks during a 200 stream, the client
\* has exactly the complete non-empty lines the relay had read, in order;
\* the stream is then closed, nothing more is written and no JSON error is
\* sent.
C5_Interrupted ==
    /\ [](\A r \in Reqs :
            closeReason[r] = "upstream_drop" =>
                /\ st[r] = "Closed"
                /\ clientOut[r] = Render(NonEmpty(CompleteLines(ReadPrefix(r))))
                /\ writing[r] = <<>>
                /\ resp[r] = StreamResp)
    /\ [][\A r \in Reqs :
            closeReason[r] = "upstream_drop" =>
                (clientOut'[r] = clientOut[r] /\ resp'[r] = resp[r])]_vars

C5_Witness ==
    /\ closeReason["r1"] = "upstream_drop"
    /\ ReadPrefix("r1") = <<"a", LF, "b">>
    /\ clientOut["r1"] = <<"a", LF>>

\* C6: the client sees either one JSON error and no stream line, or a
\* text/event-stream body without a JSON error; once the stream response
\* has begun it is never replaced by a structured error.
C6_ErrorOrStream ==
    /\ [](\A r \in Reqs :
            /\ resp[r].kind = "json" =>
                 (st[r] = "ErrorResponse" /\ clientOut[r] = <<>> /\ writing[r] = <<>>)
            /\ st[r] \in {"Streaming", "Closed"} => resp[r] = StreamResp
            /\ Terminal(r) => resp[r].kind \in {"json", "stream"}
            /\ st[r] = "ErrorResponse" => resp[r].kind = "json")
    /\ [][\A r \in Reqs : resp[r].kind = "stream" => resp'[r] = resp[r]]_vars

C6_Witness ==
    /\ st["r1"] = "Closed" /\ closeReason["r1"] = "upstream_drop"
    /\ clientOut["r1"] = <<"b", LF>>
    /\ resp["r1"] = StreamResp

\* C7: at most one upstream POST is issued for a request, whatever its
\* outcome; a failed call is not repeated.
C7_SingleAttempt ==
    \A r \in Reqs :
        /\ upCalls[r] <= 1
        /\ upState[r] # "none" => upCalls[r] = 1

C7_Witness ==
    /\ st["r1"] = "ErrorResponse" /\ resp["r1"].error = "ConnectionError"
    /\ upState["r1"] = "broken" /\ upResp["r1"] = NoUpResp
    /\ upCalls["r1"] = 1

\* C8: once a write to a disconnected client has failed, the stream is
\* closed, the upstream connection is released, and no further upstream
\* byte is read, even though upstream has more to give.
C8_ClientGone ==
    /\ [](\A r \in Reqs :
            closeReason[r] = "client_gone" => (st[r] = "Closed" /\ upReleased[r]))
    /\ [][\A r \in Reqs :
            closeReason[r] = "client_gone" => upRead'[r] = upRead[r]]_vars

C8_Witness ==
    /\ closeReason["r1"] = "client_gone" /\ clientGone["r1"]
    /\ upReleased["r1"] /\ upState["r1"] = "open" /\ Avail("r1") > 0

Count(d, b) == Len(SelectSeq(d, LAMBDA x : x = b))
\* complete non-empty lines the relay has read from upstream
NumReceived(r) == Len(NonEmpty(CompleteLines(ReadPrefix(r))))
\* lines the client has accepted
NumDelivered(r) == Count(clientOut[r], LF)

\* C9: a complete non-empty line the relay has read during a 200 stream
\* reaches the client (unless the client leaves) with no further step of
\* upstream: upstream need not send more, end or break for it.  (A body of
\* LiveBody bytes has at most LiveBody \div 2 non-empty complete lines.)
C9_NoWaitForEof ==
    \A r \in Reqs : \A k \in 1..(LiveBody \div 2) :
        (st[r] = "Streaming" /\ NumReceived(r) >= k)
            ~> (NumDelivered(r) >= k \/ clientGone[r])

C9_Witness ==
    /\ st["r1"] = "Streaming" /\ upState["r1"] = "open"
    /\ NumReceived("r1") = 1 /\ NumDelivered("r1") = 1
    /\ ~clientGone["r1"]

\* C10: the relay reads from upstream only when every line it read before
\* has been accepted by the client, and then at most one chunk: while a
\* written line is not accepted no further upstream byte is read.
C10_Backpressure ==
    [][\A r \in Reqs :
          upRead'[r] # upRead[r] =>
              /\ writing[r] = <<>>
              /\ NoNonEmpty(lines[r])
              /\ upRead'[r] - upRead[r] \in 1..ChunkSize]_vars

C10_Witness ==
    /\ st["r1"] = "Streaming" /\ writing["r1"] # <<>> /\ ~clientGone["r1"]
    /\ upRead["r1"] > 0 /\ Avail("r1") >= 2

IsPrefix(p, d) == Len(p) <= Len(d) /\ SubSeq(d, 1, Len(p)) = p
\* everything the model holds about one request
ReqState(r) ==
    <<st[r], calls[r], body[r], payload[r], upCalls[r], upState[r], upResp[r],
      upSent[r], upRead[r], upReleased[r], pending[r], lines[r], tail[r],
      writing[r], clientOut[r], clientGone[r], resp[r], closeReason[r]>>

\* C11: with two chat requests in any interleaving, what a client is sent
\* is at every moment a prefix of the non-empty lines of its own upstream
\* body, and a step of one request (whatever its outcome) changes nothing
\* of the other request.
C11_Independent ==
    /\ [](\A r \in Reqs :
            IsPrefix(clientOut[r] \o writing[r],
                     Render(NonEmpty(splitlines(upSent[r])))))
    /\ [][\A r, q \in Reqs :
            (r # q /\ ReqState(r)' # ReqState(r)) => ReqState(q)' = ReqState(q)]_vars

C11_Witness ==
    /\ st["r1"] = "Streaming" /\ st["r2"] = "Streaming"
    /\ clientOut["r1"] = <<"a", LF>> /\ clientOut["r2"] = <<"b", LF>>
    /\ upState["r1"] = "open" /\ upState["r2"] = "open"

\* C12: GET /health can always be served; every reply is {status: "ok",
\* api_key_configured: b} with b true exactly when the key is non-empty, all
\* replies are equal, and a health check changes nothing else: no upstream
\* call, no request state, no configuration.
C12_Health ==
    /\ [](/\ \A i \in 1..Len(health) :
               /\ health[i].status = "ok"
               /\ health[i].api_key_configured = (apiKey \notin {NoKey, ""})
          /\ \A i, j \in 1..Len(health) : health[i] = health[j]
          /\ Len(health) < MaxHealth => ENABLED Health)
    /\ [][health' # health =>
            /\ Len(health') = Len(health) + 1
            /\ UNCHANGED <<cardVars, apiKey, apiUrl, reqVars, upVars, genVars, cliVars>>]_vars

C12_Witness ==
    /\ apiKey = "" /\ Len(health) = 2
    /\ ~health[2].api_key_configured
    /\ st["r1"] = "ErrorResponse" /\ upCalls["r1"] = 0

\* C13: with the key configured, a request whose body is not valid JSON
\* never gets a streamed response; when it ends it has HTTP 500 and a JSON
\* body with a non-empty error string.
C13_MalformedBody ==
    \A r \in Reqs :
        (body[r].json = "invalid" /\ apiKey \notin {NoKey, ""}) =>
            /\ st[r] \notin {"Streaming", "Closed"}
            /\ resp[r].kind # "stream"
            /\ st[r] = "Forwarding" => upState[r] = "none"
            /\ Terminal(r) =>
                 (resp[r].kind = "json" /\ resp[r].code = 500 /\ resp[r].error # "")

C13_Witness ==
    /\ apiKey = "sk-1" /\ body["r1"].json = "invalid"
    /\ st["r1"] = "ErrorResponse" /\ resp["r1"] = JsonResp(500, "BadRequest", NoStatus)

\* C14: the payload posted upstream has the client's messages (the empty
\* sequence when omitted), the client's model ("openai/gpt-5.1" when
\* omitted) and stream = true.
C14_Payload ==
    \A r \in Reqs :
        upCalls[r] >= 1 =>
            /\ payload[r].messages =
                 (IF "messages" \in body[r].fields THEN body[r].messages ELSE <<>>)
            /\ payload[r].model =
                 (IF "model" \in body[r].fields THEN body[r].model ELSE "openai/gpt-5.1")
            /\ payload[r].stream = TRUE

C14_Witness ==
    /\ upCalls["r1"] = 1 /\ body["r1"].fields = {}
    /\ payload["r1"].messages = <<>> /\ payload["r1"].model = "openai/gpt-5.1"
    /\ payload["r1"].stream

\* a request's response follows from the configuration and its own inputs
ServedByOwnInputs(r) ==
    /\ st[r] = "ErrorResponse" =>
         /\ resp[r].kind = "json"
         /\ \/ apiKey \in {NoKey, ""} /\ resp[r].code = 500 /\ upCalls[r] = 0
            \/ /\ apiKey \notin {NoKey, ""} /\ body[r].json # "object"
               /\ resp[r].code = 500 /\ upCalls[r] = 0
            \/ /\ apiKey \notin {NoKey, ""} /\ body[r].json = "object"
               /\ upCalls[r] = 1 /\ upResp[r].status # 200
               /\ resp[r].code \in {500, upResp[r].status}
    /\ st[r] \in {"Streaming", "Closed"} =>
         /\ apiKey \notin {NoKey, ""} /\ body[r].json = "object"
         /\ upResp[r].status = 200 /\ resp[r] = StreamResp

\* the server takes the request's next handler step
StillServed(r) ==
    /\ st[r] = "NotArrived" => ENABLED (\E b \in ConcBodies : Arrive(r, b))
    /\ st[r] = "Received" => ENABLED Dispatch(r)
    /\ st[r] = "ValidatingConfig" => ENABLED CheckKey(r)
    /\ (st[r] = "Forwarding" /\ upState[r] = "none") => ENABLED ParseAndPost(r)

\* C15: whatever failure another request has ended in, the server goes on:
\* every chat request still takes its handler steps and gets the response
\* its own inputs call for, and /health is still answered.
C15_FailuresConfined ==
    /\ \A r \in Reqs : StillServed(r) /\ ServedByOwnInputs(r)
    /\ Len(health) < ConcHealth => ENABLED Health

C15_Witness ==
    /\ closeReason["r1"] = "upstream_drop"
    /\ st["r2"] = "Closed" /\ closeReason["r2"] = "eof"
    /\ clientOut["r2"] = <<"b", LF>>
    /\ Len(health) = 1

\* C16: a 200 response whose body is empty or has only blank lines is a
\* successful stream: nothing is written to the client, the response stays
\* the text/event-stream one and the request ends in Closed, not in
\* Error-Response.
C16_BlankBody ==
    \A r \in Reqs :
        (upResp[r].status = 200 /\ NoNonEmpty(splitlines(upSent[r]))) =>
            /\ clientOut[r] = <<>> /\ writing[r] = <<>>
            /\ st[r] \in {"Streaming", "Closed"}
            /\ resp[r] = StreamResp
            /\ (upState[r] = "eof" /\ upRead[r] = Len(upSent[r]) /\ tail[r]) =>
                 (st[r] = "Closed" /\ closeReason[r] = "eof")

C16_Witness ==
    /\ st["r1"] = "Closed" /\ closeReason["r1"] = "eof"
    /\ upSent["r1"] = <<LF, CR, LF>> /\ upRead["r1"] = 3
    /\ clientOut["r1"] = <<>> /\ resp["r1"] = StreamResp

\* C17: the API key and the endpoint URL keep the value they had at startup
\* in every step of every chat request and health check, in any interleaving.
C17_ConfigFrozen ==
    /\ [](apiUrl = "https://openrouter.ai/api/v1/chat/completions")
    /\ [][apiKey' = apiKey /\ apiUrl' = apiUrl]_vars

C17_Witness ==
    /\ apiKey = "sk-1"
    /\ st["r1"] = "Closed" /\ closeReason["r1"] = "client_gone"
    /\ st["r2"] = "ErrorResponse" /\ upResp["r2"].status = 401
    /\ Len(health) = 1

\* C18: when upstream answers and later ends or breaks its stream, and the
\* client accepts each write or leaves, every received chat request reaches
\* Error-Response or Closed; and a stream whose upstream has signalled
\* end-of-stream is closed.
C18_Terminates ==
    \A r \in Reqs :
        /\ (st[r] = "Received") ~> Terminal(r)
        /\ (st[r] = "Streaming" /\ upState[r] = "eof") ~> (st[r] = "Closed")

C18_Witness ==
    /\ st["r1"] = "Closed" /\ closeReason["r1"] = "eof"
    /\ upState["r1"] = "eof" /\ tail["r1"]
    /\ clientOut["r1"] = <<"a", "b", LF>>

\* C19 as stated: every member of the client's request body (other than a
\* stream flag of its own) is a member of the upstream payload with the same
\* value, and the payload's stream is true.
C19_ClaimedForwarding ==
    \A r \in Reqs :
        upCalls[r] >= 1 =>
            /\ \A f \in body[r].fields \ {"stream"} :
                 f \in payload[r].fields /\ payload[r][f] = body[r][f]
            /\ payload[r].stream = TRUE

\* C19 amended: the client's messages and model are forwarded unchanged; the
\* payload has no member besides messages, model and the added stream flag
\* (any other member of the client's body is not forwarded), and stream is
\* true even when the client's body has stream: false.
C19_Forwarding ==
    \A r \in Reqs :
        upCalls[r] >= 1 =>
            /\ \A f \in body[r].fields \cap {"messages", "model"} :
                 f \in payload[r].fields /\ payload[r][f] = body[r][f]
            /\ payload[r].fields \ {"messages", "model"} = {"stream"}
            /\ payload[r].stream = TRUE

C19_Witness ==
    /\ upCalls["r1"] = 1
    /\ "stream" \in body["r1"].fields /\ body["r1"].stream = FALSE
    /\ "extra" \in body["r1"].fields
    /\ payload["r1"].stream = TRUE /\ payload["r1"].messages = <<"hi">>

KeyErrorResp == JsonResp(500, "API key not configured", NoStatus)

\* C20: /health and /api/chat agree on the configuration: when /health has
\* reported api_key_configured = false no chat request gets past config
\* validation (no upstream call, the only response is the missing-key 500);
\* when it has reported true every validated chat request goes on to
\* Forwarding and none is answered with the missing-key error.
C20_HealthAgrees ==
    \A i \in 1..Len(health) : \A r \in Reqs :
        /\ ~health[i].api_key_configured =>
             /\ st[r] \in {"NotArrived", "Received", "ValidatingConfig", "ErrorResponse"}
             /\ upCalls[r] = 0
             /\ st[r] = "ErrorResponse" => resp[r] = KeyErrorResp
        /\ health[i].api_key_configured =>
             /\ resp[r] # KeyErrorResp
             /\ st[r] = "ErrorResponse" =>
                  (body[r].json # "object" \/ upCalls[r] = 1)

C20_Witness ==
    /\ apiKey = NoKey /\ Len(health) = 1
    /\ ~health[1].api_key_configured
    /\ st["r1"] = "ErrorResponse" /\ resp["r1"] = KeyErrorResp

\* the post of r failed before upstream gave any response: the connection
\* is broken and no status line was ever received
PostFailed(r) == upState[r] = "broken" /\ upResp[r].status = NoStatus

\* C21: when the upstream call has failed before any upstream response was
\* obtained, the request is in Error-Response with HTTP 500 and a JSON body
\* with an error string and no status member; no stream was started (no
\* streamed response, nothing read from upstream, nothing written to the
\* client) and exactly one upstream attempt was made.
C21_ConnectFailure ==
    \A r \in Reqs :
        PostFailed(r) =>
            /\ st[r] = "ErrorResponse"
            /\ resp[r].kind = "json" /\ resp[r].code = 500
            /\ resp[r].error # "" /\ resp[r].status = NoStatus
            /\ clientOut[r] = <<>> /\ writing[r] = <<>>
            /\ upSent[r] = <<>> /\ upRead[r] = 0
            /\ closeReason[r] = "none"
            /\ upCalls[r] = 1

C21_Witness ==
    /\ PostFailed("r1") /\ apiKey = "sk-1"
    /\ body["r1"].json = "object" /\ payload["r1"].stream = TRUE
    /\ st["r1"] = "ErrorResponse" /\ resp["r1"].code = 500
    /\ upReleased["r1"]

\* the JSON values that are not objects
NonObjectJson == {"null", "array", "string", "number"}

\* C22: a request whose body is valid JSON but not an object (null, an
\* array, a string, a number) never causes an upstream call and never gets
\* a streamed response; the response it ends with is HTTP 500 with a JSON
\* body holding a non-empty error string.
C22_NonObjectBody ==
    \A r \in Reqs :
        body[r].json \in NonObjectJson =>
            /\ upCalls[r] = 0 /\ upState[r] = "none"
            /\ payload[r] = NoPayload
            /\ st[r] \in {"Received", "ValidatingConfig", "Forwarding", "ErrorResponse"}
            /\ resp[r].kind # "stream"
            /\ st[r] = "ErrorResponse" =>
                 /\ resp[r].kind = "json" /\ resp[r].code = 500
                 /\ resp[r].error # "" /\ resp[r].status = NoStatus

C22_Witness ==
    /\ apiKey = "sk-1" /\ body["r1"].json = "null"
    /\ st["r1"] = "ErrorResponse"
    /\ resp["r1"] = JsonResp(500, "AttributeError", NoStatus)
    /\ upCalls["r1"] = 0

\* the states of the cards file for which load_cards has no cards to give
NoCardsOnDisk(f) ==
    \/ f.file \in {"missing", "unreadable", "invalid"}
    \/ f.top # "object"
    \/ ~f.hasCards
    \/ (f.value.kind = "list" /\ f.value.items = <<>>)

\* C23: in update_web_cards, once load_cards has returned and there are no
\* cards (cards file missing, unreadable, invalid JSON, no `cards` key, an
\* empty list, or any other value that counts as false), main is at or past
\* its early return, update_html_with_cards was not called and the HTML file
\* was neither opened for reading nor for writing and is as it was; and
\* whenever the HTML file was opened for writing, a non-empty card list had
\* been loaded.
C23_NoCardsNoWrite ==
    /\ (pcMain \notin {"idle", "loading"} /\ (NoCardsOnDisk(cardsJson) \/ ~cards.truthy)) =>
          /\ pcMain \in {"loaded", "stopped"}
          /\ ~cards.truthy
          /\ updateCalls = 0 /\ htmlReads = 0 /\ htmlWrites = 0
          /\ webAppHtml \in HtmlFiles
    /\ (htmlWrites > 0 \/ webAppHtml \notin HtmlFiles) =>
          /\ cards.kind = "list" /\ cards.items # <<>>
          /\ ~NoCardsOnDisk(cardsJson)
          /\ updateCalls = 1 /\ htmlReads = 1

C23_Witness ==
    /\ pcMain = "stopped"
    /\ cardsJson.file = "json" /\ cardsJson.hasCards /\ cardsJson.value = JList(<<>>)
    /\ webAppHtml = HtmlFile("writable", TRUE, <<>>)
    /\ htmlReads = 0 /\ htmlWrites = 0 /\ updateCalls = 0

====
